---------------------------- MODULE Spec2Model ----------------------------
(***************************************************************************)
(* A model of src/markdown_flow/parsers.py: the MarkdownFlow escape        *)
(* processor, block parser, inline parser, variable resolver and the       *)
(* unified parser built from them.                                         *)
(*                                                                         *)
(* A Python str is a sequence of one-character strings.  Offsets that the  *)
(* code stores or compares (match.start(), variable_positions) keep        *)
(* Python's 0-based, half-open convention; sequence indices are TLA+'s    *)
(* 1-based ones.  Each regular expression of the source is an operator     *)
(* that matches the way Python's re does: leftmost, greedy, and            *)
(* non-overlapping for finditer / findall / sub / split.                   *)
(***************************************************************************)
EXTENDS Integers, Sequences, FiniteSets, TLC

VARIABLES
    pc,             \* which operation has returned
    document,       \* parse_document's argument
    blocks,         \* the List[Block] parse_document returns
    variable_names, \* the List[str] MarkdownFlowUnifiedParser.parse_document returns
    block,          \* process_block_content's block argument
    text,           \* the text argument of process_inline_escapes / resolve_variables
    variables,      \* the caller's Dict[str, str]
    escape_info,    \* the EscapeInfo in use (NoEscapeInfo models None)
    result,         \* the str resolve_variables / process_block_content returns
    content,        \* _parse_interaction_content's argument
    descriptor      \* the dict _parse_interaction_content returns

vars == <<pc, document, blocks, variable_names, block, text, variables,
          escape_info, result, content, descriptor>>

-----------------------------------------------------------------------------
(* Bounds of the model. *)

\* lines in a document handed to the block parser
MaxLines == 5

-----------------------------------------------------------------------------
(* Python str primitives. *)

\* str.isspace() characters of the modelled alphabet; also the regex class \s
Whitespace == {" ", "\n"}

Min(a, b) == IF a < b THEN a ELSE b

\* s[start:end] with Python's clamping
Slice(s, start, end) ==
    IF start >= Min(end, Len(s)) THEN <<>> ELSE SubSeq(s, start + 1, Min(end, Len(s)))

\* s[start:]
SliceFrom(s, start) == Slice(s, start, Len(s))

\* s.startswith(p, start): p occurs in s at 0-based offset start
StartsWithAt(s, start, p) == Slice(s, start, start + Len(p)) = p

\* s.endswith(p)
EndsWith(s, p) == Len(s) >= Len(p) /\ SliceFrom(s, Len(s) - Len(p)) = p

\* p in s
Contains(s, p) == \E k \in 0..Len(s) : StartsWithAt(s, k, p)

\* s.find(p): the least offset at which p occurs, or -1
Find(s, p) ==
    IF Contains(s, p)
    THEN CHOOSE k \in 0..Len(s) :
            StartsWithAt(s, k, p) /\ \A j \in 0..(k - 1) : ~StartsWithAt(s, j, p)
    ELSE -1

RECURSIVE LStrip(_)
LStrip(s) == IF s # <<>> /\ Head(s) \in Whitespace THEN LStrip(Tail(s)) ELSE s

RECURSIVE RStrip(_)
RStrip(s) ==
    IF s # <<>> /\ s[Len(s)] \in Whitespace THEN RStrip(SubSeq(s, 1, Len(s) - 1)) ELSE s

\* str.strip()
Strip(s) == LStrip(RStrip(s))

\* s.split(sep): every occurrence of sep splits, left to right
RECURSIVE Split(_, _)
Split(s, sep) ==
    LET k == Find(s, sep)
    IN  IF k < 0 THEN <<s>>
        ELSE <<Slice(s, 0, k)>> \o Split(SliceFrom(s, k + Len(sep)), sep)

\* s.rsplit(sep, 1): the last occurrence splits instead of the first
SplitLast(s, sep) ==
    IF ~Contains(s, sep) THEN <<s>>
    ELSE LET k == CHOOSE j \in 0..Len(s) :
                     StartsWithAt(s, j, sep) /\ \A i \in (j + 1)..Len(s) : ~StartsWithAt(s, i, sep)
         IN  <<Slice(s, 0, k), SliceFrom(s, k + Len(sep))>>

\* s.split(sep, 1): only the first occurrence splits
SplitFirst(s, sep) ==
    LET k == Find(s, sep)
    IN  IF k < 0 THEN <<s>> ELSE <<Slice(s, 0, k), SliceFrom(s, k + Len(sep))>>

\* sep.join(parts)
RECURSIVE Join(_, _)
Join(parts, sep) ==
    IF parts = <<>> THEN <<>>
    ELSE IF Len(parts) = 1 THEN parts[1]
    ELSE parts[1] \o sep \o Join(Tail(parts), sep)

\* re.sub of a pattern that is a literal string
RECURSIVE SubLiteral(_, _, _)
SubLiteral(s, pat, repl) ==
    IF s = <<>> THEN <<>>
    ELSE IF StartsWithAt(s, 0, pat)
         THEN repl \o SubLiteral(SliceFrom(s, Len(pat)), pat, repl)
         ELSE <<Head(s)>> \o SubLiteral(Tail(s), pat, repl)

\* the offset at which the maximal run of characters of cls starting at offset k ends
RECURSIVE RunEnd(_, _, _)
RunEnd(s, k, cls) ==
    IF k < Len(s) /\ s[k + 1] \in cls THEN RunEnd(s, k + 1, cls) ELSE k

\* the same for the characters other than c: the greedy [^c]*
RECURSIVE RunEndNot(_, _, _)
RunEndNot(s, k, c) ==
    IF k < Len(s) /\ s[k + 1] # c THEN RunEndNot(s, k + 1, c) ELSE k

-----------------------------------------------------------------------------
(* Literals of the markup. *)

Backslash == "\\"
Dashes == <<"-", "-", "-">>
Equals3 == <<"=", "=", "=">>
Ellipsis == <<".", ".", ".">>
OpenInteraction == <<"?", "[">>
OpenVar == <<"{", "{">>
CloseVar == <<"}", "}">>
Newline == <<"\n">>
Unknown == <<"U", "N", "K", "N", "O", "W", "N">>

\* the marker {{name}}
Var(name) == OpenVar \o name \o CloseVar

-----------------------------------------------------------------------------
(* Regular expressions over a variable marker. *)

NoMatch == [start |-> -1, end |-> -1, name |-> <<>>]

\* re.match at offset k of  prefix \{\{([^}]+)\}\} : [^}]+ takes the maximal run
\* of characters other than "}", which must be non-empty and followed by "}}"
VarMatchAt(s, k, prefix) ==
    LET open == prefix \o OpenVar
        j == k + Len(open)
        e == RunEndNot(s, j, "}")
    IN  IF StartsWithAt(s, k, open) /\ e > j /\ StartsWithAt(s, e, CloseVar)
        THEN [start |-> k, end |-> e + 2, name |-> Slice(s, j, e)]
        ELSE NoMatch

\* list(re.finditer(...)) of that pattern from offset k on, with the lookbehind
\* (?<!%) when notAfterPercent: leftmost matches, none overlapping
RECURSIVE FindIterVar(_, _, _, _)
FindIterVar(s, k, prefix, notAfterPercent) ==
    IF k >= Len(s) THEN <<>>
    ELSE LET m == VarMatchAt(s, k, prefix)
         IN  IF m.start >= 0 /\ (notAfterPercent => (k = 0 \/ s[k] # "%"))
             THEN <<m>> \o FindIterVar(s, m.end, prefix, notAfterPercent)
             ELSE FindIterVar(s, k + 1, prefix, notAfterPercent)

\* re.sub of  prefix \{\{([^}]+)\}\}  by  repl {{\1}}
RECURSIVE SubVar(_, _, _)
SubVar(s, prefix, repl) ==
    IF s = <<>> THEN <<>>
    ELSE LET m == VarMatchAt(s, 0, prefix)
         IN  IF m.start >= 0
             THEN repl \o OpenVar \o m.name \o CloseVar \o SubVar(SliceFrom(s, m.end), prefix, repl)
             ELSE <<Head(s)>> \o SubVar(Tail(s), prefix, repl)

Reverse(seq) == [k \in 1..Len(seq) |-> seq[Len(seq) + 1 - k]]

-----------------------------------------------------------------------------
(* MarkdownFlowEscapeProcessor *)

\* An escape pattern: a literal one replaces pat by repl; a variable one is
\* pat \{\{([^}]+)\}\} replaced by repl {{\1}}.
Literal(pat, repl) == [kind |-> "literal", pat |-> pat, repl |-> repl]
Variable(pat, repl) == [kind |-> "variable", pat |-> pat, repl |-> repl]

DOCUMENT_ESCAPES ==
    << Literal(<<Backslash>> \o Dashes, Dashes),
       Literal(<<Backslash>> \o Equals3, Equals3),
       Literal(<<Backslash>> \o OpenInteraction, OpenInteraction) >>

INLINE_ESCAPES ==
    << Literal(<<Backslash>> \o Ellipsis, Ellipsis),
       Literal(<<Backslash, "|">>, <<"|">>),
       Literal(<<Backslash, "/", "/">>, <<"/", "/">>),
       Variable(<<Backslash>>, <<>>) >>

PARTIAL_ESCAPES == << Variable(<<Backslash, "%">>, <<"%">>) >>

\* re.search(pattern, s)
ReSearch(p, s) ==
    IF p.kind = "literal" THEN Contains(s, p.pat)
    ELSE FindIterVar(s, 0, p.pat, FALSE) # <<>>

\* re.sub(pattern, replacement, s)
ReSub(p, s) ==
    IF p.kind = "literal" THEN SubLiteral(s, p.pat, p.repl) ELSE SubVar(s, p.pat, p.repl)

\* the body of "for match in reversed(matches)" for one match m of pattern p:
\* st holds processed_text and variable_positions; original is the text the
\* matches were found in
PartialStep(st, p, original, m) ==
    LET replacement_text == ReSub(p, Slice(original, m.start, m.end))
        var_pattern == OpenVar \o m.name \o CloseVar
        var_start == Find(replacement_text, var_pattern)
        positions ==
            IF m.name # <<>> /\ var_start >= 0
            THEN Append(st.variable_positions,
                        <<m.start + var_start, m.start + var_start + Len(var_pattern)>>)
            ELSE st.variable_positions
    IN  [st EXCEPT
            !.variable_positions = positions,
            !.processed_text = Slice(st.processed_text, 0, m.start) \o replacement_text
                               \o SliceFrom(st.processed_text, m.end)]

RECURSIVE PartialMatchLoop(_, _, _, _)
PartialMatchLoop(st, p, original, matches) ==
    IF matches = <<>> THEN st
    ELSE PartialMatchLoop(PartialStep(st, p, original, Head(matches)), p, original,
                          Tail(matches))

\* "for pattern, replacement in partial_escapes.items()"
RECURSIVE PartialLoop(_, _)
PartialLoop(st, patterns) ==
    IF patterns = <<>> THEN st
    ELSE LET p == Head(patterns)
             matches == FindIterVar(st.processed_text, 0, p.pat, FALSE)
         IN  PartialLoop(
                IF matches # <<>>
                THEN PartialMatchLoop([st EXCEPT !.escape_type = "partial"], p,
                                      st.processed_text, Reverse(matches))
                ELSE st,
                Tail(patterns))

\* "for pattern, (replacement, esc_type) in full_escapes.items()"
RECURSIVE FullLoop(_, _)
FullLoop(st, patterns) ==
    IF patterns = <<>> THEN st
    ELSE LET p == Head(patterns)
         IN  FullLoop(
                IF ReSearch(p, st.processed_text)
                THEN [st EXCEPT
                        !.escape_type = IF @ = "none" THEN "full" ELSE @,
                        !.processed_text = ReSub(p, @)]
                ELSE st,
                Tail(patterns))

process_escapes(t, full_escapes, partial_escapes) ==
    FullLoop(
        PartialLoop([escape_type |-> "none", original_text |-> t, processed_text |-> t,
                     variable_positions |-> <<>>],
                    partial_escapes),
        full_escapes)

process_document_escapes(t) == process_escapes(t, DOCUMENT_ESCAPES, <<>>)

process_inline_escapes(t) == process_escapes(t, INLINE_ESCAPES, PARTIAL_ESCAPES)

\* escape_info = None
NoEscapeInfo ==
    [escape_type |-> "absent", original_text |-> <<>>, processed_text |-> <<>>,
     variable_positions |-> <<>>]

-----------------------------------------------------------------------------
(* MarkdownFlowBlockParser *)

\* re.match at offset k of the separator  \n\s*---\s*\n : the offset its match
\* ends at, or -1.  The first \s* must take the whole whitespace run ("-" is
\* no whitespace); the second gives back to the last "\n" of its run.
SeparatorEndAt(s, k) ==
    LET d == RunEnd(s, k + 1, Whitespace)
        w == RunEnd(s, d + 3, Whitespace)
        ends == {e \in (d + 4)..w : s[e] = "\n"}
    IN  IF StartsWithAt(s, k, Newline) /\ StartsWithAt(s, d, Dashes) /\ ends # {}
        THEN CHOOSE e \in ends : \A f \in ends : f <= e
        ELSE -1

\* re.split(block_separator_pattern, s)
RECURSIVE SplitBlocksFrom(_, _, _)
SplitBlocksFrom(s, segStart, k) ==
    IF k >= Len(s) THEN <<Slice(s, segStart, Len(s))>>
    ELSE LET e == SeparatorEndAt(s, k)
         IN  IF e >= 0
             THEN <<Slice(s, segStart, k)>> \o SplitBlocksFrom(s, e, e)
             ELSE SplitBlocksFrom(s, segStart, k + 1)

SplitBlocks(s) == SplitBlocksFrom(s, 0, 0)

RECURSIVE BracketCount(_)
BracketCount(s) ==
    IF s = <<>> THEN 0
    ELSE BracketCount(Tail(s))
         + (IF Head(s) = "[" THEN 1 ELSE IF Head(s) = "]" THEN -1 ELSE 0)

is_interaction_block(c) ==
    LET stripped == Strip(c)
    IN  /\ StartsWithAt(stripped, 0, OpenInteraction)
        /\ EndsWith(stripped, <<"]">>)
        /\ BracketCount(stripped) = 0

\* re.match(r'^===(.+)===$', line) on one line: group(1), or <<>> for no match
PreservedInlineBody(line) ==
    IF Len(line) >= 7 /\ StartsWithAt(line, 0, Equals3) /\ EndsWith(line, Equals3)
    THEN Slice(line, 3, Len(line) - 3)
    ELSE <<>>

is_preserved_content_block(c) ==
    LET lines == Split(c, Newline)
    IN  \/ /\ Len(lines) = 1
           /\ PreservedInlineBody(Strip(lines[1])) # <<>>
           /\ ~Contains(PreservedInlineBody(Strip(lines[1])), <<"=">>)
        \/ /\ Len(lines) >= 3
           /\ Strip(lines[1]) = Equals3
           /\ Strip(lines[Len(lines)]) = Equals3

parse_single_block(c, tentative_index) ==
    LET stripped == Strip(c)
    IN  [content |-> stripped,
         block_type |-> IF is_interaction_block(stripped) THEN "interaction"
                        ELSE IF is_preserved_content_block(stripped) THEN "preserved_content"
                        ELSE "content",
         index |-> tentative_index]

\* "for i, raw_block in enumerate(raw_blocks)": blank segments are skipped
RECURSIVE CollectBlocks(_, _)
CollectBlocks(raw_blocks, i) ==
    IF i >= Len(raw_blocks) THEN <<>>
    ELSE LET raw_block == Strip(raw_blocks[i + 1])
         IN  IF raw_block = <<>> THEN CollectBlocks(raw_blocks, i + 1)
             ELSE <<parse_single_block(raw_block, i)>> \o CollectBlocks(raw_blocks, i + 1)

\* the index fix-up left out: every block keeps its tentative index
UpdateBlockIndicesSkipped(bs) == bs

\* "for i, block in enumerate(blocks): block.index = i"
UpdateBlockIndices(bs) == [k \in 1..Len(bs) |-> [bs[k] EXCEPT !.index = k - 1]]

BlockParserParseDocument(doc) ==
    UpdateBlockIndices(
        CollectBlocks(SplitBlocks(process_document_escapes(doc).processed_text), 0))

-----------------------------------------------------------------------------
(* sorted(): Python orders str by code point, lexicographically. *)

CodePoint(c) ==
    CASE c = "\n" -> 10  [] c = " " -> 32  [] c = "%" -> 37  [] c = "(" -> 40
      [] c = ")" -> 41   [] c = "-" -> 45  [] c = "." -> 46  [] c = "/" -> 47
      [] c = "=" -> 61   [] c = "?" -> 63  [] c = "K" -> 75  [] c = "N" -> 78
      [] c = "O" -> 79   [] c = "U" -> 85  [] c = "W" -> 87  [] c = "[" -> 91
      [] c = "\\" -> 92  [] c = "]" -> 93  [] c = "a" -> 97  [] c = "b" -> 98
      [] c = "c" -> 99   [] c = "n" -> 110 [] c = "q" -> 113 [] c = "v" -> 118
      [] c = "w" -> 119  [] c = "x" -> 120 [] c = "y" -> 121 [] c = "z" -> 122
      [] c = "{" -> 123  [] c = "|" -> 124 [] c = "}" -> 125

\* a < b for str
RECURSIVE StrLess(_, _)
StrLess(a, b) ==
    IF b = <<>> THEN FALSE
    ELSE IF a = <<>> THEN TRUE
    ELSE IF Head(a) = Head(b) THEN StrLess(Tail(a), Tail(b))
    ELSE CodePoint(Head(a)) < CodePoint(Head(b))

\* sorted(list(S)) for a set of str
RECURSIVE Sorted(_)
Sorted(S) ==
    IF S = {} THEN <<>>
    ELSE LET m == CHOOSE x \in S : \A y \in S : x = y \/ StrLess(x, y)
         IN  <<m>> \o Sorted(S \ {m})

\* the set of the elements of a list
Range(seq) == {seq[k] : k \in 1..Len(seq)}

-----------------------------------------------------------------------------
(* MarkdownFlowInlineParser *)

extract_variables(t, info) ==
    LET percent_vars == FindIterVar(t, 0, <<"%">>, FALSE)
        brace_vars == FindIterVar(t, 0, <<>>, TRUE)
    IN  Sorted({Strip(percent_vars[k].name) : k \in 1..Len(percent_vars)}
               \cup (IF info.escape_type # "full"
                     THEN {Strip(brace_vars[k].name) : k \in 1..Len(brace_vars)}
                     ELSE {}))

parse_content_block(c) ==
    LET info == process_inline_escapes(c)
    IN  [processed_content |-> info.processed_text,
         variables |-> extract_variables(info.processed_text, info),
         escape_info |-> info]

extract_preserved_content(c) ==
    LET lines == Split(c, Newline)
    IN  IF Len(lines) = 1 /\ PreservedInlineBody(Strip(lines[1])) # <<>>
        THEN Strip(PreservedInlineBody(Strip(lines[1])))
        ELSE IF Len(lines) >= 3 /\ Strip(lines[1]) = Equals3
                /\ Strip(lines[Len(lines)]) = Equals3
        THEN Join(SubSeq(lines, 2, Len(lines) - 1), Newline)
        ELSE c

parse_preserved_content_block(c) ==
    LET info == process_inline_escapes(extract_preserved_content(c))
    IN  [processed_content |-> info.processed_text,
         variables |-> extract_variables(info.processed_text, info),
         escape_info |-> info]

\* one button_text of "for button_text in content.split('|')"
Button(button_text) ==
    IF Contains(button_text, <<"/", "/">>)
    THEN [display |-> Strip(SplitFirst(button_text, <<"/", "/">>)[1]),
          value |-> Strip(SplitFirst(button_text, <<"/", "/">>)[2])]
    ELSE [display |-> button_text, value |-> button_text]

RECURSIVE ButtonsOf(_)
ButtonsOf(parts) ==
    IF parts = <<>> THEN <<>>
    ELSE (IF Strip(Head(parts)) # <<>> THEN <<Button(Strip(Head(parts)))>> ELSE <<>>)
         \o ButtonsOf(Tail(parts))

parse_buttons(c) == IF c = <<>> THEN <<>> ELSE ButtonsOf(Split(c, <<"|">>))

\* the regex $ at offset k: the end, or just before a final newline
AtEnd(s, k) == k = Len(s) \/ (k = Len(s) - 1 /\ s[Len(s)] = "\n")

\* re.match(r'^[^]]+\]\([^)]+\)$', s)
IsMarkdownLink(s) ==
    LET e1 == RunEndNot(s, 0, "]")
        e2 == RunEndNot(s, e1 + 2, ")")
    IN  /\ e1 > 0
        /\ StartsWithAt(s, e1, <<"]", "(">>)
        /\ e2 > e1 + 2
        /\ StartsWithAt(s, e2, <<")">>)
        /\ AtEnd(s, e2 + 1)

\* re.match(r'^%\{\{([^}]+)\}\}(.*)$', s): group(1) and group(2), or no match;
\* "." matches no newline
VarAssignmentMatch(s) ==
    LET m == VarMatchAt(s, 0, <<"%">>)
        e == RunEndNot(s, m.end, "\n")
    IN  IF m.start >= 0 /\ AtEnd(s, e)
        THEN [matched |-> TRUE, name |-> m.name, rest |-> Slice(s, m.end, e)]
        ELSE [matched |-> FALSE, name |-> <<>>, rest |-> <<>>]

\* The dict _parse_interaction_content returns: keys are the keys it holds, and
\* a field whose key is absent is empty.
Descriptor(keys, type, variable, buttons, question) ==
    [keys |-> keys, type |-> type, variable |-> variable, buttons |-> buttons,
     question |-> question]

\* no dict returned yet
NoDescriptor == Descriptor({}, "", <<>>, <<>>, <<>>)

parse_interaction_content(c) ==
    LET var_match == VarAssignmentMatch(Strip(c))
        var_name == Strip(var_match.name)
        remaining == Strip(var_match.rest)
        parts == SplitFirst(remaining, Ellipsis)
        buttons_part == Strip(parts[1])
        question == IF Len(parts) > 1 THEN Strip(parts[2]) ELSE <<>>
    IN  IF IsMarkdownLink(Strip(c))
        THEN Descriptor({"error"}, "", <<>>, <<>>, <<>>)
        ELSE IF var_match.matched
        THEN IF Contains(remaining, Ellipsis)
             THEN IF Contains(buttons_part, <<"|">>) /\ buttons_part # <<>>
                  THEN Descriptor({"type", "variable", "buttons", "question"},
                                  "buttons_with_text", var_name,
                                  parse_buttons(buttons_part), question)
                  ELSE Descriptor({"type", "variable", "question"},
                                  "text_only", var_name, <<>>, question)
             ELSE IF Contains(remaining, <<"|">>) \/ remaining # <<>>
                  THEN Descriptor({"type", "variable", "buttons"}, "buttons_only", var_name,
                                  IF remaining # <<>> THEN parse_buttons(remaining) ELSE <<>>,
                                  <<>>)
                  ELSE Descriptor({"type", "variable", "question"},
                                  "text_only", var_name, <<>>, <<>>)
        ELSE Descriptor({"type", "buttons"}, "non_assignment_button", <<>>,
                        IF c # <<>> THEN parse_buttons(c)
                        ELSE <<[display |-> <<>>, value |-> <<>>]>>,
                        <<>>)

parse_interaction_block(c) ==
    LET inner_content ==
            IF StartsWithAt(c, 0, OpenInteraction) /\ EndsWith(c, <<"]">>)
            THEN Strip(Slice(c, 2, Len(c) - 1))
            ELSE c
    IN  parse_interaction_content(process_inline_escapes(inner_content).processed_text)

-----------------------------------------------------------------------------
(* MarkdownFlowVariableResolver *)

\* Python's None as a dict value
NoneValue == <<"None">>

EmptyDict == [n \in {} |-> <<>>]

\* safe_variables[key] = value, inserting the key when it is new
DictSet(dict, key, value) ==
    [n \in DOMAIN dict \cup {key} |-> IF n = key THEN value ELSE dict[n]]

\* "safe_variables = {}" and the loop filling it: a dict of its own, with
\* None and "" replaced by UNKNOWN
SafeCopy(dict) ==
    [n \in DOMAIN dict |->
        IF dict[n] # NoneValue /\ dict[n] # <<>> THEN dict[n] ELSE Unknown]

\* the decision "should_replace" for one match
ShouldReplace(info, m) ==
    IF info.escape_type = "full" THEN FALSE
    ELSE IF info.escape_type = "partial"
    THEN \E k \in 1..Len(info.variable_positions) :
            /\ info.variable_positions[k][1] <= m.start
            /\ m.start < info.variable_positions[k][2]
    ELSE TRUE

\* "safe_variables[var_name] = ...": st holds the caller's dict (variables), the
\* resolver's own safe_variables and the result so far
SafeVariablesWrite(st, key, value) ==
    [st EXCEPT !.safe_variables = DictSet(@, key, value)]

\* the body of "for match in reversed(matches)"
ResolveStep(st, info, m) ==
    LET var_name == Strip(m.name)
        st1 == IF var_name \in DOMAIN st.safe_variables THEN st
               ELSE SafeVariablesWrite(st, var_name, Unknown)
        replacement == st1.safe_variables[var_name]
    IN  [st1 EXCEPT
            !.result = IF ShouldReplace(info, m)
                       THEN Slice(@, 0, m.start) \o replacement \o SliceFrom(@, m.end)
                       ELSE @]

RECURSIVE ResolveLoop(_, _, _)
ResolveLoop(st, info, matches) ==
    IF matches = <<>> THEN st
    ELSE ResolveLoop(ResolveStep(st, info, Head(matches)), info, Tail(matches))

\* the matches rewritten first to last: offsets go stale after the first one
ResolveOrderForward(matches) == matches

\* the order in which the matches are rewritten: "reversed(matches)"
ResolveOrder(matches) == Reverse(matches)

\* resolve_variables(text, variables, escape_info): the str it returns and the
\* caller's dict as the call leaves it
resolve_variables(t, dict, info) ==
    LET st == ResolveLoop([variables |-> dict, safe_variables |-> SafeCopy(dict),
                           result |-> t],
                          info, ResolveOrder(FindIterVar(t, 0, <<>>, TRUE)))
    IN  [result |-> st.result, variables |-> st.variables]

-----------------------------------------------------------------------------
(* MarkdownFlowUnifiedParser *)

\* what one block adds to all_variables
BlockVariables(b) ==
    IF b.block_type = "content" THEN Range(parse_content_block(b.content).variables)
    ELSE IF b.block_type = "interaction"
    THEN LET inline_result == parse_interaction_block(b.content)
         IN  (IF "variable" \in inline_result.keys THEN {inline_result.variable} ELSE {})
             \cup (IF "question" \in inline_result.keys
                   THEN Range(extract_variables(inline_result.question, NoEscapeInfo))
                   ELSE {})
    ELSE Range(parse_preserved_content_block(b.content).variables)

\* sorted(..., reverse=True): the names in descending order
NameListDescending(S) == Reverse(Sorted(S))

\* the list a set of names is returned as: "sorted(list(all_variables))"
NameList(S) == Sorted(S)

UnifiedParseDocument(doc) ==
    LET bs == BlockParserParseDocument(doc)
    IN  [blocks |-> bs,
         variable_names |-> NameList(UNION {BlockVariables(bs[k]) : k \in 1..Len(bs)})]

\* the arguments process_block_content hands to resolve_variables
InlineResult(b) ==
    IF b.block_type = "content" THEN parse_content_block(b.content)
    ELSE parse_preserved_content_block(b.content)

process_block_content(b, dict) ==
    IF b.block_type \in {"content", "preserved_content"}
    THEN resolve_variables(InlineResult(b).processed_content, dict,
                           InlineResult(b).escape_info).result
    ELSE b.content

-----------------------------------------------------------------------------
(* Inputs: documents are lines joined by "\n". *)

\* all sequences of 1..n elements of S
SeqsUpTo(S, n) == UNION {[1..k -> S] : k \in 1..n}

BlockLines ==
    { <<"a">>, <<>>, <<" ">>, Dashes, <<" ">> \o Dashes \o <<" ">>,
      <<Backslash>> \o Dashes }

BlockDocuments == {Join(ls, Newline) : ls \in SeqsUpTo(BlockLines, MaxLines)}

Idle == <<>>

InitBlock ==
    /\ pc = "ready"
    /\ document \in BlockDocuments
    /\ blocks = <<>>
    /\ variable_names = <<>>
    /\ block = Idle
    /\ text = Idle
    /\ variables = Idle
    /\ escape_info = NoEscapeInfo
    /\ result = Idle
    /\ content = Idle
    /\ descriptor = NoDescriptor

\* MarkdownFlowBlockParser.parse_document(document)
BlockParse ==
    /\ pc = "ready"
    /\ blocks' = BlockParserParseDocument(document)
    /\ pc' = "parsed"
    /\ UNCHANGED <<document, variable_names, block, text, variables, escape_info,
                   result, content, descriptor>>

NextBlock == BlockParse

SpecBlock == InitBlock /\ [][NextBlock]_vars

-----------------------------------------------------------------------------
(* MarkdownFlowVariableResolver.resolve_variables without escapes           *)
(* (SpecResolve).                                                          *)

\* pieces in a text handed to resolve_variables
MaxResolvePieces == 3

ResolvePieces ==
    { Var(<<"x">>), Var(<<" ", "y", " ">>), Var(<<"z">>), <<"%">> \o Var(<<"x">>),
      <<"a">>, <<"{">> }

ResolveTexts == {Join(ps, <<>>) : ps \in SeqsUpTo(ResolvePieces, MaxResolvePieces)}

\* dicts over the names x and y with None, "" and "vv" as values
ResolveDicts ==
    UNION {[D -> {NoneValue, <<>>, <<"v", "v">>}] : D \in SUBSET {<<"x">>, <<"y">>}}

\* escape_info is None, or an EscapeInfo of type NONE for the text
NoEscapes(t) ==
    [escape_type |-> "none", original_text |-> t, processed_text |-> t,
     variable_positions |-> <<>>]

InitResolve ==
    /\ pc = "ready"
    /\ document = Idle
    /\ blocks = <<>>
    /\ variable_names = <<>>
    /\ block = Idle
    /\ text \in ResolveTexts
    /\ variables \in ResolveDicts
    /\ escape_info \in {NoEscapeInfo, NoEscapes(text)}
    /\ result = Idle
    /\ content = Idle
    /\ descriptor = NoDescriptor

\* MarkdownFlowVariableResolver.resolve_variables(text, variables, escape_info)
Resolve ==
    /\ pc = "ready"
    /\ result' = resolve_variables(text, variables, escape_info).result
    /\ variables' = resolve_variables(text, variables, escape_info).variables
    /\ pc' = "resolved"
    /\ UNCHANGED <<document, blocks, variable_names, block, text, escape_info, content,
                   descriptor>>

NextResolve == Resolve

SpecResolve == InitResolve /\ [][NextResolve]_vars

-----------------------------------------------------------------------------
(* MarkdownFlowInlineParser._parse_interaction_content (SpecInteraction).  *)

\* pieces in an interaction's inner content
MaxInteractionPieces == 4

InteractionPieces ==
    { <<"%">> \o Var(<<" ", "n", " ">>), <<"a">>, <<"|">>, Ellipsis, <<" ">>, Newline,
      <<"]", "(", "a", ")">> }

InteractionContents ==
    {<<>>} \cup {Join(ps, <<>>) : ps \in SeqsUpTo(InteractionPieces, MaxInteractionPieces)}

InitInteraction ==
    /\ pc = "ready"
    /\ document = Idle
    /\ blocks = <<>>
    /\ variable_names = <<>>
    /\ block = Idle
    /\ text = Idle
    /\ variables = Idle
    /\ escape_info = NoEscapeInfo
    /\ result = Idle
    /\ content \in InteractionContents
    /\ descriptor = NoDescriptor

\* MarkdownFlowInlineParser._parse_interaction_content(content)
ParseInteractionContent ==
    /\ pc = "ready"
    /\ descriptor' = parse_interaction_content(content)
    /\ pc' = "interaction"
    /\ UNCHANGED <<document, blocks, variable_names, block, text, variables, escape_info,
                   result, content>>

NextInteraction == ParseInteractionContent

SpecInteraction == InitInteraction /\ [][NextInteraction]_vars

-----------------------------------------------------------------------------
(* Properties of MarkdownFlowBlockParser.parse_document (SpecBlock). *)

\* the strings of parts occur in s one after the other, in this order
RECURSIVE InOrder(_, _)
InOrder(s, parts) ==
    IF parts = <<>> THEN TRUE
    ELSE LET k == Find(s, Head(parts))
         IN  k >= 0 /\ InOrder(SliceFrom(s, k + Len(Head(parts))), Tail(parts))

DocumentLines == Split(document, Newline)

IsSeparatorLine(line) == Strip(line) = Dashes

\* C1: the blocks parse_document returns carry the indices 0, 1, ..., len-1 in
\* document order, and none of them has empty or whitespace-only content.
C1_IndexContiguity ==
    pc = "parsed" =>
        /\ \A k \in 1..Len(blocks) :
              /\ blocks[k].index = k - 1
              /\ Strip(blocks[k].content) # <<>>
        /\ InOrder(process_document_escapes(document).processed_text,
                   [k \in 1..Len(blocks) |-> blocks[k].content])

\* a blank segment was dropped in front of a block and two blocks were returned
C1_Witness ==
    /\ pc = "parsed"
    /\ Len(blocks) >= 2
    /\ Strip(SplitBlocks(process_document_escapes(document).processed_text)[1]) = <<>>

\* the document has a line reading \--- between two non-blank segments and no
\* line that is an unescaped ---
HasOnlyEscapedSeparator ==
    /\ \E k \in 2..(Len(DocumentLines) - 1) :
          /\ DocumentLines[k] = <<Backslash>> \o Dashes
          /\ \E j \in 1..(k - 1) : Strip(DocumentLines[j]) # <<>>
          /\ \E j \in (k + 1)..Len(DocumentLines) : Strip(DocumentLines[j]) # <<>>
    /\ \A k \in 1..Len(DocumentLines) : ~IsSeparatorLine(DocumentLines[k])

\* C2: an escaped separator does not split: a document with a \--- line between
\* two non-blank segments and no unescaped --- line parses to a single block
\* whose content contains the literal ---.
C2_EscapedSeparatorKeepsOneBlock ==
    (pc = "parsed" /\ HasOnlyEscapedSeparator) =>
        /\ Len(blocks) = 1
        /\ Contains(blocks[1].content, Dashes)

\* every line of the document that is only --- has a newline before and after it
SeparatorLinesAreInner ==
    /\ Len(DocumentLines) >= 3
    /\ ~IsSeparatorLine(DocumentLines[1])
    /\ ~IsSeparatorLine(DocumentLines[Len(DocumentLines)])

\* C9: in a document without backslash every --- line that has a newline before
\* and after it splits, so no block's content holds a line that is only ---,
\* adjacent separator lines included.
C9_EverySeparatorLineSplits ==
    (pc = "parsed" /\ ~Contains(document, <<Backslash>>) /\ SeparatorLinesAreInner) =>
        \A k \in 1..Len(blocks) :
            \A j \in 1..Len(Split(blocks[k].content, Newline)) :
                ~IsSeparatorLine(Split(blocks[k].content, Newline)[j])

-----------------------------------------------------------------------------
(* MarkdownFlowUnifiedParser.parse_document on documents with variables,   *)
(* interactions and preserved content (Spec).                              *)

\* lines in a document handed to the unified parser
MaxUnifiedLines == 3

UnifiedLines ==
    { Var(<<"b">>),
      Var(<<" ", "a", " ">>) \o <<" ">> \o Var(<<"a">>),
      <<"%">> \o Var(<<"a">>),
      Dashes,
      OpenInteraction \o <<"%">> \o Var(<<"c">>) \o Var(<<"a">>) \o <<"|", "b", "]">>,
      OpenInteraction \o <<"%">> \o Var(<<" ", "c">>) \o Ellipsis \o Var(<<"b">>) \o <<"]">>,
      OpenInteraction \o Var(<<"a">>) \o <<"]">>,
      Equals3 \o Var(<<"b">>) \o Equals3,
      Equals3,
      <<Backslash>> \o Var(<<"a">>) }

UnifiedDocuments == {Join(ls, Newline) : ls \in SeqsUpTo(UnifiedLines, MaxUnifiedLines)}

Init ==
    /\ pc = "ready"
    /\ document \in UnifiedDocuments
    /\ blocks = <<>>
    /\ variable_names = <<>>
    /\ block = Idle
    /\ text = Idle
    /\ variables = Idle
    /\ escape_info = NoEscapeInfo
    /\ result = Idle
    /\ content = Idle
    /\ descriptor = NoDescriptor

\* MarkdownFlowUnifiedParser.parse_document(document)
UnifiedParse ==
    /\ pc = "ready"
    /\ blocks' = UnifiedParseDocument(document).blocks
    /\ variable_names' = UnifiedParseDocument(document).variable_names
    /\ pc' = "parsed"
    /\ UNCHANGED <<document, block, text, variables, escape_info, result, content,
                   descriptor>>

Next == UnifiedParse

Spec == Init /\ [][Next]_vars

-----------------------------------------------------------------------------
(* MarkdownFlowUnifiedParser.process_block_content on Content and          *)
(* PreservedContent blocks with escapes (SpecContent).                     *)

\* pieces in a block's content
MaxPieces == 3

ContentPieces ==
    { <<Backslash, "%">> \o Var(<<"x">>),
      <<Backslash>> \o Var(<<"y">>),
      Var(<<"x">>),
      <<"%">> \o Var(<<"x">>),
      <<Backslash, "|">>,
      <<"a">> }

ContentTexts == {Join(ps, <<>>) : ps \in SeqsUpTo(ContentPieces, MaxPieces)}

\* a block as the block parser builds it: a PreservedContent block carries its
\* === marker lines
ContentBlocks ==
    {[content |-> c, block_type |-> "content", index |-> 0] : c \in ContentTexts}
    \cup {[content |-> Equals3 \o Newline \o c \o Newline \o Equals3,
           block_type |-> "preserved_content", index |-> 0] : c \in ContentTexts}

ContentDicts ==
    { EmptyDict,
      [n \in {<<"x">>, <<"y">>} |-> <<"v">>],
      [n \in {<<"x">>, <<"y">>} |-> IF n = <<"x">> THEN <<>> ELSE <<"w", "w">>] }

InitContent ==
    /\ pc = "ready"
    /\ document = Idle
    /\ blocks = <<>>
    /\ variable_names = <<>>
    /\ block \in ContentBlocks
    /\ text = Idle
    /\ variables \in ContentDicts
    /\ escape_info = NoEscapeInfo
    /\ result = Idle
    /\ content = Idle
    /\ descriptor = NoDescriptor

\* MarkdownFlowUnifiedParser.process_block_content(block, variables); text and
\* escape_info are what it hands to resolve_variables
ProcessBlockContent ==
    /\ pc = "ready"
    /\ text' = InlineResult(block).processed_content
    /\ escape_info' = InlineResult(block).escape_info
    /\ result' = process_block_content(block, variables)
    /\ pc' = "processed"
    /\ UNCHANGED <<document, blocks, variable_names, block, variables, content,
                   descriptor>>

NextContent == ProcessBlockContent

SpecContent == InitContent /\ [][NextContent]_vars

-----------------------------------------------------------------------------
(* Properties of process_block_content and process_inline_escapes            *)
(* (SpecContent).                                                          *)

\* the number of offsets at which p occurs in s
Occurrences(s, p) == Cardinality({k \in 0..Len(s) : StartsWithAt(s, k, p)})

PartialEscapeOfX == <<Backslash, "%">> \o Var(<<"x">>)
FullEscapeOfY == <<Backslash>> \o Var(<<"y">>)

\* C3: a partially escaped variable stays live: when the content of a Content
\* or PreservedContent block contains \%{{x}} and x is mapped to a non-empty
\* value v, every such occurrence reads %v in what process_block_content returns.
C3_PartialEscapeIsSubstituted ==
    (/\ pc = "processed"
     /\ <<"x">> \in DOMAIN variables
     /\ variables[<<"x">>] # <<>>) =>
        Occurrences(result, <<"%">> \o variables[<<"x">>])
            >= Occurrences(block.content, PartialEscapeOfX)

\* C4: a fully escaped variable is never substituted: whatever other escapes
\* the content holds, every \{{y}} of it is the literal {{y}} in what
\* process_block_content returns, also when y is in the variable map.
C4_FullEscapeStaysLiteral ==
    (pc = "processed" /\ <<"y">> \in DOMAIN variables) =>
        Occurrences(result, Var(<<"y">>)) >= Occurrences(block.content, FullEscapeOfY)

\* C5: after process_inline_escapes every (start, end) of variable_positions
\* is the range of the {{name}} marker of one partially escaped occurrence in
\* processed_text, and there is one entry per \%{{name}} of the input.
C5_VariablePositionsAreExact ==
    pc = "processed" =>
        /\ Len(escape_info.variable_positions)
              = Occurrences(escape_info.original_text, PartialEscapeOfX)
        /\ \A k \in 1..Len(escape_info.variable_positions) :
              LET start == escape_info.variable_positions[k][1]
                  end == escape_info.variable_positions[k][2]
              IN  /\ Slice(escape_info.processed_text, start, end) = Var(<<"x">>)
                  /\ StartsWithAt(escape_info.processed_text, start - 1, <<"%">>)

-----------------------------------------------------------------------------
(* Properties of MarkdownFlowUnifiedParser.parse_document (Spec).           *)

\* C7: the variable-name list parse_document returns is strictly ascending in
\* lexicographic order (sorted, without duplicates), and no name in it has
\* leading or trailing whitespace.
C7_NamesSortedAndTrimmed ==
    pc = "parsed" =>
        /\ \A k \in 1..(Len(variable_names) - 1) :
              StrLess(variable_names[k], variable_names[k + 1])
        /\ \A k \in 1..Len(variable_names) : Strip(variable_names[k]) = variable_names[k]

\* names written as {{b}}, {{ a }} and {{a}} came back as the list a, b
C7_Witness ==
    /\ pc = "parsed"
    /\ Contains(document, Var(<<" ", "a", " ">>))
    /\ Contains(document, Var(<<"b">>) \o Newline)
    /\ StartsWithAt(document, 0, Var(<<"b">>))
    /\ variable_names = << <<"a">>, <<"b">> >>

\* the names of the {{name}} and %{{name}} markers of a text, trimmed
MarkerNames(t) ==
    LET ms == FindIterVar(t, 0, <<>>, FALSE)
    IN  {Strip(ms[k].name) : k \in 1..Len(ms)}

\* C8: for a document without backslash, the trimmed name of every {{name}}
\* and %{{name}} of every block (Content, PreservedContent or Interaction, the
\* button list of an interaction included) is in the variable-name list
\* parse_document returns.
C8_EveryVariableIsListed ==
    (pc = "parsed" /\ ~Contains(document, <<Backslash>>)) =>
        \A k \in 1..Len(blocks) :
            MarkerNames(blocks[k].content) \subseteq Range(variable_names)

-----------------------------------------------------------------------------
(* Properties of resolve_variables (SpecResolve).                           *)

\* the mapping's value for a name, UNKNOWN when the name is absent or mapped
\* to None or to the empty string
ValueOrUnknown(dict, name) ==
    IF name \in DOMAIN dict /\ dict[name] # NoneValue /\ dict[name] # <<>>
    THEN dict[name]
    ELSE Unknown

\* t from offset k on, rebuilt left to right: each {{name}} that does not
\* follow a "%" gives way to the value of its trimmed name, all else is copied
RECURSIVE Substituted(_, _, _)
Substituted(t, k, dict) ==
    IF k >= Len(t) THEN <<>>
    ELSE LET m == VarMatchAt(t, k, <<>>)
         IN  IF m.start >= 0 /\ (k = 0 \/ t[k] # "%")
             THEN ValueOrUnknown(dict, Strip(m.name)) \o Substituted(t, m.end, dict)
             ELSE <<t[k + 1]>> \o Substituted(t, k + 1, dict)

\* C6: with no escape_info, or one of type NONE, resolve_variables replaces
\* every {{name}} not right after "%" by the mapping's value for the trimmed
\* name, by UNKNOWN when the name is absent or mapped to None or "", and it
\* leaves the caller's mapping as it was.
C6_ResolveSubstitutesOrFallsBack ==
    [][(pc = "ready" /\ pc' = "resolved") =>
          /\ result' = Substituted(text, 0, variables)
          /\ variables' = variables]_vars

\* x mapped to None fell back to UNKNOWN next to a substituted {{ y }} and a
\* %{{x}} left alone
C6_Witness ==
    /\ pc = "resolved"
    /\ DOMAIN variables = {<<"x">>, <<"y">>}
    /\ variables[<<"x">>] = NoneValue
    /\ variables[<<"y">>] = <<"v", "v">>
    /\ text = Var(<<" ", "y", " ">>) \o Var(<<"x">>) \o <<"%">> \o Var(<<"x">>)
    /\ result = <<"v", "v">> \o Unknown \o <<"%">> \o Var(<<"x">>)

-----------------------------------------------------------------------------
(* Properties of _parse_interaction_content (SpecInteraction).              *)

\* content, trimmed
Trimmed == Strip(content)

\* the text after the %{{name}} prefix, trimmed
Remainder == Strip(SliceFrom(Trimmed, VarMatchAt(Trimmed, 0, <<"%">>).end))

\* C10: for single-line content that is not shaped like a markdown link and
\* starts with %{{name}}, the variable is the trimmed name; with "..." in the
\* remainder the type is buttons_with_text when the text before the first
\* "..." contains "|", text_only otherwise, and the question is the trimmed
\* text after the first "..."; with no "..." the type is buttons_only with
\* parse_buttons(remainder) for a non-empty remainder, and text_only with an
\* empty question for an empty one.
C10_VariableBindingGrammar ==
    (/\ pc = "interaction"
     /\ ~Contains(Trimmed, Newline)
     /\ ~IsMarkdownLink(Trimmed)
     /\ VarMatchAt(Trimmed, 0, <<"%">>).start = 0) =>
        /\ "variable" \in descriptor.keys
        /\ descriptor.variable = Strip(VarMatchAt(Trimmed, 0, <<"%">>).name)
        /\ IF Contains(Remainder, Ellipsis)
           THEN LET k == Find(Remainder, Ellipsis)
                IN  /\ descriptor.type =
                          IF Contains(Slice(Remainder, 0, k), <<"|">>)
                          THEN "buttons_with_text" ELSE "text_only"
                    /\ "question" \in descriptor.keys
                    /\ descriptor.question = Strip(SliceFrom(Remainder, k + 3))
           ELSE IF Remainder # <<>>
           THEN /\ descriptor.type = "buttons_only"
                /\ "buttons" \in descriptor.keys
                /\ descriptor.buttons = parse_buttons(Remainder)
           ELSE /\ descriptor.type = "text_only"
                /\ "question" \in descriptor.keys
                /\ descriptor.question = <<>>

\* %{{ n }}|...a...  came back as buttons_with_text for n asking "a..."
C10_Witness ==
    /\ pc = "interaction"
    /\ content = <<"%">> \o Var(<<" ", "n", " ">>) \o <<"|">> \o Ellipsis \o <<"a">>
    /\ descriptor.type = "buttons_with_text"
    /\ descriptor.variable = <<"n">>
    /\ descriptor.question = <<"a">>

\* C11: a non_assignment_button descriptor (no %{{name}} prefix matched) never
\* has an empty buttons list: empty content gives the one placeholder button
\* with empty display and value, and no other content, one made only of "|"
\* and whitespace included, gives an empty list.
C11_NonAssignmentButtonsNonEmpty ==
    (pc = "interaction" /\ descriptor.type = "non_assignment_button") =>
        /\ descriptor.buttons # <<>>
        /\ (content = <<>> => descriptor.buttons = <<[display |-> <<>>, value |-> <<>>]>>)

-----------------------------------------------------------------------------
(* MarkdownFlowBlockParser.parse_document on documents with brackets        *)
(* (SpecClassify).                                                         *)

\* pieces in a document with brackets
MaxClassifyPieces == 5

ClassifyPieces ==
    { OpenInteraction, <<"[">>, <<"]">>, <<"a">>, Newline, Newline \o Dashes \o Newline }

ClassifyDocuments == {Join(ps, <<>>) : ps \in SeqsUpTo(ClassifyPieces, MaxClassifyPieces)}

InitClassify ==
    /\ pc = "ready"
    /\ document \in ClassifyDocuments
    /\ blocks = <<>>
    /\ variable_names = <<>>
    /\ block = Idle
    /\ text = Idle
    /\ variables = Idle
    /\ escape_info = NoEscapeInfo
    /\ result = Idle
    /\ content = Idle
    /\ descriptor = NoDescriptor

NextClassify == BlockParse

SpecClassify == InitClassify /\ [][NextClassify]_vars

\* the bracket depth after each character of s, scanned left to right:
\* +1 on "[", -1 on "]"
DepthAfter(s, j) == BracketCount(SubSeq(s, 1, j))

\* C12: in every block classified Interaction the final "]" closes the "[" of
\* the opening "?[": the depth does not return to 0 before the last
\* character, so a segment whose trailing "]" closes another bracket pair is
\* not an Interaction.
C12_FinalBracketClosesOpening ==
    pc = "parsed" =>
        \A k \in 1..Len(blocks) :
            blocks[k].block_type = "interaction" =>
                \A j \in 2..(Len(blocks[k].content) - 1) :
                    DepthAfter(blocks[k].content, j) # 0

=============================================================================
